---- MODULE Spec2Model ----
(***************************************************************************)
(* A model of filter_library.py: the echo (delay_effect), the oscillator   *)
(* (_low_frequency_oscillator), the flanger and the chorus, as calls made  *)
(* by a caller that holds one input buffer at a time.                      *)
(*                                                                         *)
(* State.  pc, fname, args and ret are the caller's position, the name of  *)
(* the function it called, what it passed and what came back.  mem is what *)
(* the caller can see of the arrays after the call: the samples its own    *)
(* array holds and which array was returned.  np_random is the state of    *)
(* numpy's global generator, which outlives every call.                    *)
(*                                                                         *)
(* Numbers.  Samples are integers.  The comb of delay_effect holds the     *)
(* values 0 and exp(-j); since e is transcendental, a real number of the   *)
(* form c0 + c1*exp(-1) + ... + cE*exp(-E) with integer c is determined by *)
(* its coefficients, so such a number is modelled by the function          *)
(* [0..MaxEchoes -> Int] of its coefficients and equality is exact.        *)
(* Seconds, frequencies and oscillator values are rationals <<num, den>>   *)
(* with den > 0.  Arithmetic is that of the reals: the rounding of the     *)
(* floating-point FFT and of sin is not modelled.                          *)
(***************************************************************************)
EXTENDS Integers, Sequences, FiniteSets, TLC

VARIABLES pc, fname, args, ret, mem, np_random

vars == <<pc, fname, args, ret, mem, np_random>>

(***************************************************************************)
(* Bounds of the model.                                                    *)
(***************************************************************************)
MaxLen == 4
MaxEchoes == 3
MaxDelay == 4
MaxRate == 2
MaxDepth == 3
MaxFreq == 4
FreqDen == 4
MaxChorusLen == 3
MaxVoices == 3

Samples == {-1, 0, 1}

Buffers == UNION {[1..n -> Samples] : n \in 1..MaxLen}

\* what is handed to _trim_convolution: one element longer, so that the
\* odd lengths 1, 3, 5 are there
Convolutions == UNION {[1..n -> Samples] : n \in 1..(MaxLen + 1)}

\* the unit impulse of five samples
Impulse == <<1, 0, 0, 0, 0>>

(***************************************************************************)
(* Reals of the form sum_j c[j]*exp(-j).                                   *)
(***************************************************************************)
Exps == 0..MaxEchoes

Zero == [e \in Exps |-> 0]

\* math.exp(-(j + 1)), a decay that starts one tap late
ExpNegLate(j) == [e \in Exps |-> IF e = j + 1 THEN 1 ELSE 0]

\* math.exp(-j)
ExpNeg(j) == [e \in Exps |-> IF e = j THEN 1 ELSE 0]

\* an integer sample as a real
Real(v) == [e \in Exps |-> IF e = 0 THEN v ELSE 0]

Scale(v, r) == [e \in Exps |-> v * r[e]]

Plus(r, s) == [e \in Exps |-> r[e] + s[e]]

(***************************************************************************)
(* numpy arrays are 0-based; a TLA+ sequence holds index i at place i+1.   *)
(***************************************************************************)
At(a, i) == a[i + 1]

\* The place a numpy index i names in an array of length n: negative
\* indices count from the end, anything outside -n..n-1 is an IndexError.
InBounds(i, n) == -n <= i /\ i < n

Place(i, n) == IF i < 0 THEN n + i ELSE i

(***************************************************************************)
(* _trim_convolution                                                       *)
(***************************************************************************)
\* length // 2, which loses the centre element
half_length_rounded_down(length) == length \div 2

half_length(length) == (length + 1) \div 2

\* np.delete(audioin, range(half_length, length))
_trim_convolution(audioin) ==
    [k \in 1..half_length(Len(audioin)) |-> audioin[k]]

(***************************************************************************)
(* delay_effect                                                            *)
(***************************************************************************)
\* math.floor(delay * samplerate), delay a rational number of seconds
FloorSamples(seconds, samplerate) == (seconds[1] * samplerate) \div seconds[2]

\* the guard of the comb loop
TapGuard(delay, j, n) == delay * j <= n

\* comb[index] = math.exp(-j), a write that accumulates instead
WriteTapAccumulating(comb, index, j) ==
    [comb EXCEPT ![Place(index, Len(comb)) + 1] = Plus(@, ExpNeg(j))]

\* comb[index] = math.exp(-j)
WriteTap(comb, index, j) ==
    [comb EXCEPT ![Place(index, Len(comb)) + 1] = ExpNeg(j)]

\* The comb loop from tap j on: each tap that passes the guard is written
\* at index delay*j; a write outside the array raises.
RECURSIVE CombLoop(_, _, _, _)
CombLoop(comb, j, echoes, delay) ==
    IF j > echoes THEN [raised |-> "none", comb |-> comb]
    ELSE IF TapGuard(delay, j, Len(comb))
         THEN IF InBounds(delay * j, Len(comb))
              THEN CombLoop(WriteTap(comb, delay * j, j), j + 1, echoes, delay)
              ELSE [raised |-> "IndexError", comb |-> comb]
         ELSE CombLoop(comb, j + 1, echoes, delay)

RECURSIVE SumTo(_, _, _)
\* sum over i in lo..hi of f[i], a real
SumTo(f, lo, hi) == IF lo > hi THEN Zero ELSE Plus(f[lo], SumTo(f, lo + 1, hi))

Max(a, b) == IF a > b THEN a ELSE b
Min(a, b) == IF a < b THEN a ELSE b

\* signal.fftconvolve(a, b): the linear convolution, len(a)+len(b)-1 points;
\* a holds integer samples, b reals.
fftconvolve(a, b) ==
    [m \in 1..(Len(a) + Len(b) - 1) |->
        LET lo == Max(0, (m - 1) - (Len(b) - 1))
            hi == Min(m - 1, Len(a) - 1)
        IN SumTo([i \in lo..hi |-> Scale(At(a, i), At(b, (m - 1) - i))], lo, hi)]

delay_effect(audioin, echoes, delay, samplerate) ==
    LET d == FloorSamples(delay, samplerate)
        built == CombLoop([k \in 1..Len(audioin) |-> Zero], 0, echoes, d)
    IN IF built.raised # "none"
       THEN [raised |-> built.raised, value |-> <<>>]
       ELSE [raised |-> "none",
             value |-> _trim_convolution(fftconvolve(audioin, built.comb))]

(***************************************************************************)
(* Rationals <<num, den>>, den > 0.                                        *)
(***************************************************************************)
\* int(q): Python truncates towards zero
Trunc(q) == IF q[1] >= 0 THEN q[1] \div q[2] ELSE -((-q[1]) \div q[2])

\* math.floor(q)
Floor(q) == q[1] \div q[2]

\* j - q < 0 for an integer j, i.e. q > j (compared through the floor of q,
\* which keeps the products within 32 bits)
BelowZero(j, q) == Floor(q) > j \/ (Floor(q) = j /\ q[1] % q[2] # 0)

(***************************************************************************)
(* _low_frequency_oscillator                                               *)
(***************************************************************************)
DefaultSampleRate == 44100

shapes == {"triangle", "sin", "saw"}

\* np.linspace(0, stop, num)[k] for an integer stop: a single point is 0
Linspace(stop, num, k) == IF num = 1 THEN <<0, 1>> ELSE <<k * stop, num - 1>>

\* t * freq, the argument of the wave in periods
Periods(t, freq) == <<t[1] * freq[1], t[2] * freq[2]>>

\* signal.sawtooth(2*pi*p): rises from -1 to 1 over each period
Sawtooth(p) == <<2 * (p[1] % p[2]) - p[2], p[2]>>

\* a triangle that keeps rising over the second half of the period
TriangleUnfolded(p) == <<4 * (p[1] % p[2]) - p[2], p[2]>>

\* signal.sawtooth(2*pi*p, 0.5): rises over the first half of each period,
\* falls over the second
Triangle(p) ==
    LET r == p[1] % p[2]
    IN IF 2 * r < p[2] THEN <<4 * r - p[2], p[2]>> ELSE <<3 * p[2] - 4 * r, p[2]>>

\* np.sin(2*pi*p) is rational only at these twelfths of a period (Niven);
\* the model calls the sine there and nowhere else.
SinTwelfths == {0, 1, 3, 5, 6, 7, 9, 11}

SinExact(p) ==
    /\ (12 * p[1]) % p[2] = 0
    /\ ((12 * p[1]) \div p[2]) % 12 \in SinTwelfths

Sin(p) ==
    LET tw == ((12 * p[1]) \div p[2]) % 12
    IN CASE tw \in {0, 6} -> <<0, 2>>
         [] tw \in {1, 5} -> <<1, 2>>
         [] tw = 3 -> <<2, 2>>
         [] tw \in {7, 11} -> <<-1, 2>>
         [] tw = 9 -> <<-2, 2>>

Wave(shape, p) ==
    CASE shape = "triangle" -> Triangle(p)
      [] shape = "saw" -> Sawtooth(p)
      [] shape = "sin" -> Sin(p)

\* amplitude + amplitude * wave, which never goes below 0 only by the wave
\* staying above -1; here the offset is left out
Oscillate_no_offset(amplitude, w) == <<amplitude * w[1], w[2]>>

\* amplitude + amplitude * wave
Oscillate(amplitude, w) == <<amplitude * w[2] + amplitude * w[1], w[2]>>

\* a // b for b # 0: Python rounds the quotient down whatever the signs
FloorDiv(a, b) == IF b > 0 THEN a \div b ELSE (-a) \div (-b)

\* the argument of the wave at sample k
PeriodsAt(k, freq, length, samplerate) ==
    Periods(Linspace(FloorDiv(length, samplerate), length, k), freq)

\* The shape is the only argument looked at; length // samplerate divides
\* by zero when the rate is 0, after the amplitude has been converted.
_low_frequency_oscillator(amplitude, freq, shape, length, samplerate) ==
    IF shape \notin shapes
    THEN [raised |-> "ValueError", value |-> <<>>]
    ELSE IF samplerate = 0
    THEN [raised |-> "ZeroDivisionError", value |-> <<>>]
    ELSE [raised |-> "none",
          value |-> [j \in 1..length |->
                       Oscillate(FloorSamples(amplitude, samplerate),
                                 Wave(shape, PeriodsAt(j - 1, freq, length, samplerate)))]]

\* the inputs on which the model can evaluate the oscillator exactly
Exact(freq, shape, length, samplerate) ==
    shape = "sin" =>
        ~\E k \in 0..(length - 1) : ~SinExact(PeriodsAt(k, freq, length, samplerate))

(***************************************************************************)
(* flanger_effect                                                          *)
(***************************************************************************)
\* the index read at j: 0 when j - lfo[j] < 0, j - int(lfo[j]) otherwise,
\* without the test (every index reads j - int(lfo[j]))
SourceIndexUnclamped(j, m) == j - Trunc(m)

\* the index read at j, had the clamp read audioin[j] instead of audioin[0]
SourceIndexClampedToSelf(j, m) == IF BelowZero(j, m) THEN j ELSE j - Trunc(m)

\* the index read at j: 0 when j - lfo[j] < 0, j - int(lfo[j]) otherwise
SourceIndex(j, m) == IF BelowZero(j, m) THEN 0 ELSE j - Trunc(m)

\* one pass of the loop over j: x[j] + x[source index]
ModulatedCopy(audioin, lfo, length) ==
    IF \E j \in 0..(length - 1) : ~InBounds(SourceIndex(j, At(lfo, j)), length)
    THEN [raised |-> "IndexError", value |-> <<>>]
    ELSE [raised |-> "none",
          value |-> [k \in 1..length |->
                       audioin[k] + At(audioin, Place(SourceIndex(k - 1, lfo[k]), length))]]

\* delay_lfo is an array: SubSeq makes the oscillator's values once, before
\* the loop reads them
flanger_effect(audioin, depth, sweep, shape) ==
    LET length == Len(audioin)
        delay_lfo == _low_frequency_oscillator(depth, sweep, shape, length,
                                               DefaultSampleRate)
    IN IF delay_lfo.raised # "none" THEN delay_lfo
       ELSE ModulatedCopy(audioin, SubSeq(delay_lfo.value, 1, length), length)

(***************************************************************************)
(* chorus_effect                                                           *)
(***************************************************************************)
modes == {"deterministic", "gaussian"}

\* np.linspace(0, maxsweep, voices)[k], had a single point been the end of
\* the interval instead of its start
SweepAtEnd(maxsweep, voices, k) ==
    IF voices = 1 THEN maxsweep ELSE <<k * maxsweep[1], maxsweep[2] * (voices - 1)>>

\* np.linspace(0, maxsweep, voices)[k] for a rational maxsweep
SweepAt(maxsweep, voices, k) ==
    IF voices = 1 THEN <<0, 1>> ELSE <<k * maxsweep[1], maxsweep[2] * (voices - 1)>>

\* audioout[j] = ... for every j, had it been audioout[j] += ...
StoreAccumulating(audioout, copy) == [k \in DOMAIN audioout |-> audioout[k] + copy[k]]

\* audioout[j] = ... for every j: a pass replaces what the pass before wrote
Store(audioout, copy) == copy

\* the passes of voices k.. over the shared output buffer
RECURSIVE VoicePasses(_, _, _, _, _)
VoicePasses(audioout, audioin, lfo_vector, k, length) ==
    IF k > Len(lfo_vector) THEN [raised |-> "none", value |-> audioout]
    ELSE LET pass == ModulatedCopy(audioin, lfo_vector[k], length)
         IN IF pass.raised # "none" THEN pass
            ELSE VoicePasses(Store(audioout, pass.value), audioin, lfo_vector,
                             k + 1, length)

\* sweepargs is the record of the keyword arguments; drawn is what
\* np.random.normal returns when it is called.
chorus_effect(audioin, voices, mode, depth, shape, sweepargs, drawn) ==
    IF mode \notin modes THEN [raised |-> "ValueError", value |-> <<>>]
    ELSE IF mode = "deterministic" /\ "maxsweep" \notin DOMAIN sweepargs
    THEN [raised |-> "KeyError", value |-> <<>>]
    ELSE IF mode = "gaussian" /\ ~({"sweepmean", "sweepsd"} \subseteq DOMAIN sweepargs)
    THEN [raised |-> "KeyError", value |-> <<>>]
    ELSE
    LET sweep_vector ==
            IF mode = "deterministic"
            THEN [k \in 1..voices |-> SweepAt(sweepargs.maxsweep, voices, k - 1)]
            ELSE drawn
        length == Len(audioin)
    IN IF voices >= 1 /\ shape \notin shapes
       THEN [raised |-> "ValueError", value |-> <<>>]
       ELSE VoicePasses([k \in 1..length |-> 0], audioin,
                        [k \in 1..voices |->
                            SubSeq(_low_frequency_oscillator(depth, sweep_vector[k],
                                       shape, length, DefaultSampleRate).value,
                                   1, length)],
                        1, length)

\* The global generator of np.random.  Its state is kept as the parity of
\* the number of values drawn so far; the standard normal value it gives
\* is a function of that state.
GeneratorStates == {0, 1}

StandardNormal(s) == IF s = 0 THEN -1 ELSE 1

\* the state after n values have been drawn
Advance(s, n) == (s + n) % 2

\* np.random.normal(sweepmean, sweepsd, voices) in state s:
\* sweepmean + sweepsd * z for the next `voices` standard normal values z
np_random_normal(s, sweepmean, sweepsd, voices) ==
    [k \in 1..voices |->
        <<sweepmean[1] * sweepsd[2]
            + StandardNormal(Advance(s, k - 1)) * sweepsd[1] * sweepmean[2],
          sweepmean[2] * sweepsd[2]>>]

\* how many values a call of chorus_effect draws from the global generator:
\* the draw comes after the mode is checked and the keywords are fetched,
\* and before the shape is looked at
chorus_draws(voices, mode, sweepargs) ==
    IF mode = "gaussian" /\ {"sweepmean", "sweepsd"} \subseteq DOMAIN sweepargs
    THEN voices ELSE 0

(***************************************************************************)
(* The arrays of a call.  The caller's array is "audioin"; every function  *)
(* builds its result in an array of its own.                               *)
(***************************************************************************)
\* audioout = audioin: the stores of the loop land in the caller's array
audioout_aliased == "audioin"

\* audioout = np.zeros(length), the array flanger_effect and chorus_effect
\* fill and return
audioout_array == "audioout"

\* the array np.delete returns in _trim_convolution, and the oscillator's
result_array == "result"

\* What the caller sees once the call is over: a store into array a changes
\* the caller's samples only if a is the caller's array; a call that raises
\* returns no array.
Mem(audioin, a, result) ==
    [audioin |-> IF a = "audioin" /\ result.raised = "none" THEN result.value
                 ELSE audioin,
     returned |-> IF result.raised = "none" THEN a ELSE "none"]

(***************************************************************************)
(* The caller.                                                             *)
(***************************************************************************)
DelayDen == 2

Delays == {<<s, DelayDen>> : s \in 0..MaxDelay}

Rates == 1..MaxRate

\* amplitudes in seconds: halves of a second for the oscillator called on
\* its own, sample periods of the default rate and a quarter of a second
\* for the flanger and the chorus
Amplitudes == {<<a, 2>> : a \in 0..MaxDepth}

Depths == {<<a, DefaultSampleRate>> : a \in 0..MaxDepth} \cup {<<1, 4>>}

\* frequencies in Hz
Freqs == {<<f, FreqDen>> : f \in (-MaxFreq)..MaxFreq}

Sweeps == {<<f, 1>> : f \in -1..1}

\* one second at the default rate: the shortest buffer over which the
\* oscillator of the flanger and the chorus moves at all
LongLen == DefaultSampleRate

LongBuffers == {SubSeq([k \in 1..LongLen |-> k % 7], 1, LongLen)}

QuarterSecond == <<1, 4>>

FlangerCalls ==
    [audioin : Buffers, depth : Depths, sweep : {<<0, 1>>, <<1, 1>>}, shape : shapes]

LongFlangerCalls ==
    [audioin : LongBuffers, depth : {QuarterSecond}, sweep : {<<1, 1>>},
     shape : {"triangle", "saw"}]

\* the chorus is linear in its input: buffers of zeros and ones span it
ChorusSamples == {0, 1}

ChorusBuffers == UNION {[1..n -> ChorusSamples] : n \in 1..MaxChorusLen}

DeterministicArgs == {[maxsweep |-> m] : m \in Sweeps}

GaussianArgs == {[sweepmean |-> <<0, 1>>, sweepsd |-> <<sd, 1>>] : sd \in 0..1}

ChorusCalls ==
    [audioin : ChorusBuffers, voices : 1..MaxVoices, mode : {"deterministic"},
     depth : Depths, shape : shapes, sweepargs : DeterministicArgs]
    \cup [audioin : ChorusBuffers, voices : 1..MaxVoices, mode : {"gaussian"},
          depth : Depths, shape : shapes, sweepargs : GaussianArgs]

LongChorusCalls ==
    [audioin : LongBuffers, voices : {1, 2}, mode : {"deterministic"},
     depth : {QuarterSecond}, shape : {"triangle"},
     sweepargs : {[maxsweep |-> <<1, 1>>]}]

NoArgs == [audioin |-> <<>>]

NoRet == [raised |-> "none", value |-> <<>>]

NoMem == [audioin |-> <<>>, returned |-> "none"]

Init ==
    /\ pc = "idle"
    /\ fname = "none"
    /\ args = NoArgs
    /\ ret = NoRet
    /\ mem = NoMem
    /\ np_random \in GeneratorStates

CallTrim ==
    /\ pc = "idle"
    /\ \E audioin \in Convolutions :
        /\ args' = [audioin |-> audioin]
        /\ ret' = [raised |-> "none", value |-> _trim_convolution(audioin)]
        /\ mem' = Mem(audioin, result_array, ret')
    /\ fname' = "_trim_convolution"
    /\ pc' = "returned"
    /\ UNCHANGED np_random

DelayCall(audioin, echoes, delay, samplerate) ==
    /\ args' = [audioin |-> audioin, echoes |-> echoes, delay |-> delay,
                samplerate |-> samplerate]
    /\ ret' = delay_effect(audioin, echoes, delay, samplerate)
    /\ mem' = Mem(audioin, result_array, ret')
    /\ fname' = "delay_effect"
    /\ pc' = "returned"
    /\ UNCHANGED np_random

CallDelay ==
    /\ pc = "idle"
    /\ \E audioin \in Buffers \cup {Impulse}, echoes \in 0..MaxEchoes, delay \in Delays,
          samplerate \in Rates :
        DelayCall(audioin, echoes, delay, samplerate)

OscillatorCall(amplitude, freq, shape, length, samplerate) ==
    /\ args' = [audioin |-> <<>>, amplitude |-> amplitude, freq |-> freq,
                shape |-> shape, length |-> length, samplerate |-> samplerate]
    /\ ret' = _low_frequency_oscillator(amplitude, freq, shape, length, samplerate)
    /\ mem' = Mem(<<>>, result_array, ret')
    /\ fname' = "_low_frequency_oscillator"
    /\ pc' = "returned"
    /\ UNCHANGED np_random

CallOscillator ==
    /\ pc = "idle"
    /\ \E amplitude \in Amplitudes, freq \in Freqs, shape \in shapes,
          length \in 1..(MaxLen + 1), samplerate \in Rates :
        /\ Exact(freq, shape, length, samplerate)
        /\ OscillatorCall(amplitude, freq, shape, length, samplerate)

FlangerCall(c) ==
    /\ Exact(c.sweep, c.shape, Len(c.audioin), DefaultSampleRate)
    /\ args' = c
    /\ ret' = flanger_effect(c.audioin, c.depth, c.sweep, c.shape)
    /\ mem' = Mem(c.audioin, audioout_array, ret')

CallFlanger ==
    /\ pc = "idle"
    /\ \E c \in FlangerCalls : FlangerCall(c)
    /\ fname' = "flanger_effect"
    /\ pc' = "returned"
    /\ UNCHANGED np_random

\* The long buffer is passed in one state of the generator only: the calls
\* made with it neither read nor change that state.
CallLongFlanger ==
    /\ pc = "idle"
    /\ np_random = 0
    /\ \E c \in LongFlangerCalls : FlangerCall(c)
    /\ fname' = "flanger_effect"
    /\ pc' = "returned"
    /\ UNCHANGED np_random

ChorusCall(c) ==
    LET drawn == IF chorus_draws(c.voices, c.mode, c.sweepargs) > 0
                 THEN np_random_normal(np_random, c.sweepargs.sweepmean,
                                       c.sweepargs.sweepsd, c.voices)
                 ELSE <<>>
    IN  /\ ~\E k \in 1..Len(drawn) :
               ~Exact(drawn[k], c.shape, Len(c.audioin), DefaultSampleRate)
        /\ c.mode = "deterministic" => ~\E k \in 0..(c.voices - 1) :
               ~Exact(SweepAt(c.sweepargs.maxsweep, c.voices, k), c.shape,
                      Len(c.audioin), DefaultSampleRate)
        /\ args' = [audioin |-> c.audioin, voices |-> c.voices, mode |-> c.mode,
                    depth |-> c.depth, shape |-> c.shape,
                    sweepargs |-> c.sweepargs, drawn |-> drawn,
                    np_random |-> np_random]
        /\ ret' = chorus_effect(c.audioin, c.voices, c.mode, c.depth, c.shape,
                                c.sweepargs, drawn)
        /\ mem' = Mem(c.audioin, audioout_array, ret')
        /\ np_random' = Advance(np_random,
                                chorus_draws(c.voices, c.mode, c.sweepargs))

CallChorus ==
    /\ pc = "idle"
    /\ \E c \in ChorusCalls : ChorusCall(c)
    /\ fname' = "chorus_effect"
    /\ pc' = "returned"

CallLongChorus ==
    /\ pc = "idle"
    /\ np_random = 0
    /\ \E c \in LongChorusCalls : ChorusCall(c)
    /\ fname' = "chorus_effect"
    /\ pc' = "returned"

Return ==
    /\ pc = "returned"
    /\ pc' = "idle"
    /\ fname' = "none"
    /\ args' = NoArgs
    /\ ret' = NoRet
    /\ mem' = NoMem
    /\ UNCHANGED np_random

Next ==
    \/ CallChorus
    \/ CallTrim
    \/ CallOscillator
    \/ CallDelay
    \/ CallFlanger
    \/ CallLongChorus
    \/ CallLongFlanger
    \/ Return

Spec == Init /\ [][Next]_vars

(***************************************************************************)
(* The caller that passes anything: tokens the functions do not know,      *)
(* sample rates and delays of any sign, no voices, an empty buffer; and    *)
(* the caller of the phaser.                                               *)
(***************************************************************************)
AnyShapes == shapes \cup {"square"}

AnyModes == modes \cup {"uniform"}

AnyRates == {-1, 0, 1}

AnySeconds == {<<-1, 1>>, <<0, 1>>, <<1, 1>>}

ShortBuffers == UNION {[1..n -> ChorusSamples] : n \in 1..2}

AnyBuffers == {<<>>} \cup ShortBuffers

AnyFlangerCalls ==
    [audioin : ShortBuffers, depth : {<<0, 1>>, <<1, DefaultSampleRate>>},
     sweep : {<<0, 1>>}, shape : AnyShapes]

AnyChorusCalls ==
    [audioin : ShortBuffers, voices : 0..2, mode : {"deterministic", "uniform"},
     depth : {<<1, DefaultSampleRate>>}, shape : AnyShapes,
     sweepargs : {[maxsweep |-> <<1, 1>>]}]
    \cup [audioin : ShortBuffers, voices : 0..2, mode : {"gaussian"},
          depth : {<<1, DefaultSampleRate>>}, shape : AnyShapes,
          sweepargs : {[sweepmean |-> <<0, 1>>, sweepsd |-> <<1, 1>>]}]

\* what Python's None stands for in ret.value
None == "None"

\* the body is a bare return
phaser_effect(audioin, shift) == [raised |-> "none", value |-> None]

CallAnyDelay ==
    /\ pc = "idle"
    /\ \E audioin \in AnyBuffers, echoes \in 0..1, delay \in AnySeconds,
          samplerate \in AnyRates :
        DelayCall(audioin, echoes, delay, samplerate)

CallAnyOscillator ==
    /\ pc = "idle"
    /\ \E amplitude \in AnySeconds, freq \in {<<1, 1>>},
          shape \in AnyShapes \ {"sin"}, length \in 0..2, samplerate \in AnyRates :
        OscillatorCall(amplitude, freq, shape, length, samplerate)

CallAnyFlanger ==
    /\ pc = "idle"
    /\ \E c \in AnyFlangerCalls : FlangerCall(c)
    /\ fname' = "flanger_effect"
    /\ pc' = "returned"
    /\ UNCHANGED np_random

CallAnyChorus ==
    /\ pc = "idle"
    /\ \E c \in AnyChorusCalls : ChorusCall(c)
    /\ fname' = "chorus_effect"
    /\ pc' = "returned"

CallPhaser ==
    /\ pc = "idle"
    /\ \E audioin \in ShortBuffers, shift \in 0..1 :
        /\ args' = [audioin |-> audioin, shift |-> shift]
        /\ ret' = phaser_effect(audioin, shift)
        /\ mem' = [audioin |-> audioin, returned |-> "none"]
    /\ fname' = "phaser_effect"
    /\ pc' = "returned"
    /\ UNCHANGED np_random

NextAny ==
    \/ CallAnyChorus
    \/ CallAnyFlanger
    \/ CallPhaser
    \/ CallAnyDelay
    \/ CallAnyOscillator
    \/ Return

SpecAny == Init /\ [][NextAny]_vars

(***************************************************************************)
(* Properties.                                                             *)
(***************************************************************************)
Returned(f) == pc = "returned" /\ fname = f

\* C2: delay_effect never raises while building the comb: every tap whose
\* index is not a position of the comb is dropped and a buffer is returned.
C2_DelayNeverRaises ==
    Returned("delay_effect") =>
        /\ ret.raised = "none"
        /\ Len(ret.value) >= 1

\* C3: for a sequence of odd length 2n-1, _trim_convolution returns exactly
\* its first n elements, in order and unchanged.
C3_TrimKeepsFirstHalf ==
    (Returned("_trim_convolution") /\ Len(args.audioin) % 2 = 1) =>
        /\ ret.raised = "none"
        /\ 2 * Len(ret.value) - 1 = Len(args.audioin)
        /\ \A k \in 1..Len(ret.value) : ret.value[k] = args.audioin[k]

C3_Witness ==
    /\ Returned("_trim_convolution")
    /\ Len(args.audioin) = 5
    /\ Len(ret.value) = 3
    /\ args.audioin[3] # args.audioin[4]

\* C4: with echoes = 0, delay_effect returns its input element for element,
\* whatever the delay.
C4_EchoIdentity ==
    (Returned("delay_effect") /\ args.echoes = 0) =>
        /\ ret.raised = "none"
        /\ Len(ret.value) = Len(args.audioin)
        /\ \A k \in 1..Len(args.audioin) : ret.value[k] = Real(args.audioin[k])

C4_Witness ==
    /\ Returned("delay_effect")
    /\ args.echoes = 0
    /\ FloorSamples(args.delay, args.samplerate) = 1
    /\ args.audioin = <<1, -1, 0>>
    /\ ret.value = <<Real(1), Real(-1), Real(0)>>

\* C1: delay_effect, flanger_effect and chorus_effect each return a buffer of
\* exactly the length of their input, for every valid input.
C1_LengthPreserved ==
    (pc = "returned" /\ fname \in {"delay_effect", "flanger_effect", "chorus_effect"}) =>
        /\ ret.raised = "none"
        /\ Len(ret.value) = Len(args.audioin)

\* The comb as C5 states it: exp(-j) for the largest tap j that lands on
\* index i, and 0 where no tap lands.
TapsAt(i, echoes, d) == {j \in 0..echoes : j * d = i}

LargestOf(S) == CHOOSE j \in S : \A t \in S : t <= j

StatedComb(i, echoes, d) ==
    IF TapsAt(i, echoes, d) = {} THEN Zero
    ELSE ExpNeg(LargestOf(TapsAt(i, echoes, d)))

StatedEcho(x, k, echoes, d) ==
    SumTo([i \in 0..k |-> Scale(At(x, k - i), StatedComb(i, echoes, d))], 0, k)

\* C5: whenever delay_effect returns, out[k] is the sum over i in 0..k of
\* comb[i]*x[k-i] with comb[i] = exp(-j) for the largest tap j on index i;
\* with d = 0 the output is exp(-echoes)*x, and x = [1,0,0,0,0], echoes = 1,
\* delay = 1 s at 1 Hz gives [1, exp(-1), 0, 0, 0].
C5_EchoOutput ==
    (Returned("delay_effect") /\ ret.raised = "none") =>
        LET x == args.audioin
            d == FloorSamples(args.delay, args.samplerate)
        IN /\ Len(ret.value) = Len(x)
           /\ \A k \in 0..(Len(x) - 1) :
                At(ret.value, k) = StatedEcho(x, k, args.echoes, d)
           /\ d = 0 => \A k \in 0..(Len(x) - 1) :
                At(ret.value, k) = Scale(At(x, k), ExpNeg(args.echoes))
           /\ (x = <<1, 0, 0, 0, 0>> /\ d = 1 /\ args.echoes = 1) =>
                ret.value = <<ExpNeg(0), ExpNeg(1), Zero, Zero, Zero>>

C5_Witness ==
    /\ Returned("delay_effect")
    /\ ret.raised = "none"
    /\ \/ /\ args.audioin = <<1, 0, 0, 0, 0>>
          /\ args.delay = <<2, 2>>
          /\ args.samplerate = 1
          /\ args.echoes = 1
          /\ ret.value = <<ExpNeg(0), ExpNeg(1), Zero, Zero, Zero>>
       \/ /\ FloorSamples(args.delay, args.samplerate) = 0
          /\ args.echoes = 2
          /\ args.audioin = <<1, -1>>
          /\ ret.value = <<ExpNeg(2), Scale(-1, ExpNeg(2))>>

\* C6: the first sample of the flanger's output is twice the first sample of
\* its input.
C6_FlangerFirstSample ==
    Returned("flanger_effect") =>
        /\ ret.raised = "none"
        /\ ret.value[1] = 2 * args.audioin[1]

\* the oscillator the flanger builds for its arguments
FlangerLfo ==
    _low_frequency_oscillator(args.depth, args.sweep, args.shape, Len(args.audioin),
                              DefaultSampleRate).value

C6_Witness ==
    /\ Returned("flanger_effect")
    /\ args.shape = "sin"
    /\ FlangerLfo[1][1] > 0
    /\ Len(args.audioin) >= 2
    /\ args.audioin[1] = -1
    /\ args.audioin[Len(args.audioin)] = 1
    /\ ret.value[1] = -2

\* C7 as stated: the first value of the oscillator is 0 for every shape.
C7_FirstValueZero ==
    (Returned("_low_frequency_oscillator") /\ ret.raised = "none") =>
        ret.value[1][1] = 0

\* C7, amended: the first value of the oscillator is 0 for the triangle and
\* the sawtooth and the amplitude in samples for the sine; for every shape
\* the flanger's source index at j = 0 is 0.
C7_FirstValue ==
    (Returned("_low_frequency_oscillator") /\ ret.raised = "none") =>
        LET a == FloorSamples(args.amplitude, args.samplerate)
            first == ret.value[1]
        IN /\ args.shape \in {"triangle", "saw"} => first[1] = 0
           /\ args.shape = "sin" => first[1] = a * first[2]
           /\ SourceIndex(0, first) = 0

C7_Witness ==
    /\ Returned("_low_frequency_oscillator")
    /\ args.shape = "sin"
    /\ FloorSamples(args.amplitude, args.samplerate) = 2
    /\ ret.value[1][1] = 2 * ret.value[1][2]
    /\ args.length >= 2

\* C8: every value of the oscillator lies in [0, 2*amplitude], amplitude in
\* samples being floor(amplitudeSeconds*sampleRate), and the oscillator has
\* exactly `length` values.
C8_OscillatorRange ==
    (Returned("_low_frequency_oscillator") /\ ret.raised = "none") =>
        LET a == FloorSamples(args.amplitude, args.samplerate)
        IN /\ Len(ret.value) = args.length
           /\ \A k \in 1..Len(ret.value) :
                /\ 0 <= ret.value[k][1]
                /\ ret.value[k][1] <= 2 * a * ret.value[k][2]

C8_Witness ==
    /\ Returned("_low_frequency_oscillator")
    /\ FloorSamples(args.amplitude, args.samplerate) >= 1
    /\ args.shape = "triangle"
    /\ \E k \in 1..Len(ret.value) :
           ret.value[k][1] = 2 * FloorSamples(args.amplitude, args.samplerate) * ret.value[k][2]
    /\ \E k \in 1..Len(ret.value) : ret.value[k][1] = 0
    /\ \E k \in 1..Len(ret.value) : ret.value[k][1] % ret.value[k][2] # 0

\* the source index as the specification states it: j - floor(M[j]), and 0
\* when that is negative
FlooredSource(j, m) == IF j - Floor(m) < 0 THEN 0 ELSE j - Floor(m)

\* C9: at every index j the flanger adds x[src] to x[j], src being
\* j - floor(M[j]) clamped below at 0; the code's un-floored test reads the
\* same sample, M[j] is never negative, and 0 <= src <= j.
C9_FlangerSource ==
    Returned("flanger_effect") =>
        /\ ret.raised = "none"
        /\ \A j \in 0..(Len(args.audioin) - 1) :
            LET m == At(FlangerLfo, j)
                src == FlooredSource(j, m)
            IN /\ m[1] >= 0
               /\ 0 <= src /\ src <= j
               /\ SourceIndex(j, m) = src
               /\ At(ret.value, j) = At(args.audioin, j) + At(args.audioin, src)

\* a value strictly between j and j + 1: the un-floored test is true, the
\* floored one is not
Between(j, m) == Floor(m) = j /\ m[1] % m[2] # 0

C9_Witness ==
    /\ Returned("flanger_effect")
    /\ Len(args.audioin) = LongLen
    /\ args.shape = "triangle"
    /\ Between(1, At(FlangerLfo, 1))
    /\ At(ret.value, 1) = At(args.audioin, 1) + At(args.audioin, 0)
    /\ \E j \in {LongLen - 2} :
        /\ At(FlangerLfo, j)[1] % At(FlangerLfo, j)[2] # 0
        /\ FlooredSource(j, At(FlangerLfo, j)) \in 1..(j - 1)
        /\ At(ret.value, j) =
             At(args.audioin, j) + At(args.audioin, FlooredSource(j, At(FlangerLfo, j)))

\* the sweep of voice k (from 1) of the chorus call
VoiceSweep(k) ==
    IF args.mode = "deterministic"
    THEN SweepAt(args.sweepargs.maxsweep, args.voices, k - 1)
    ELSE args.drawn[k]

\* the oscillator of voice k
VoiceLfo(k) ==
    _low_frequency_oscillator(args.depth, VoiceSweep(k), args.shape, Len(args.audioin),
                              DefaultSampleRate).value

RECURSIVE SumInt(_, _, _)
SumInt(f, lo, hi) == IF lo > hi THEN 0 ELSE f[lo] + SumInt(f, lo + 1, hi)

\* C10: the chorus returns the mean of the original and all modulated copies:
\* N*y[n] = x[n] + x[n - M_1[n]] + ... + x[n - M_N[n]].
C10_ChorusMean ==
    (Returned("chorus_effect") /\ ret.raised = "none") =>
        \A n \in 0..(Len(args.audioin) - 1) :
            args.voices * At(ret.value, n) =
                At(args.audioin, n)
                + SumInt([k \in 1..args.voices |->
                            At(args.audioin, SourceIndex(n, At(VoiceLfo(k), n)))],
                         1, args.voices)

\* the same rational
SameRational(q, r) == q[1] * r[2] = r[1] * q[2]

\* C11: a deterministic chorus of one voice returns what flanger_effect
\* returns for the same buffer, depth and shape with sweep 0, element for
\* element, whatever maxsweep is: the single sweep of the even spacing over
\* [0, maxsweep] is 0.
C11_ChorusOfOneVoice ==
    (Returned("chorus_effect") /\ args.voices = 1 /\ args.mode = "deterministic") =>
        /\ SameRational(VoiceSweep(1), <<0, 1>>)
        /\ ret = flanger_effect(args.audioin, args.depth, <<0, 1>>, args.shape)

\* one voice over a buffer long enough for a sweep of 1 Hz to move the
\* oscillator, had that been the voice's sweep
C11_Witness ==
    /\ Returned("chorus_effect")
    /\ args.voices = 1
    /\ args.mode = "deterministic"
    /\ args.sweepargs.maxsweep = <<1, 1>>
    /\ Len(args.audioin) = LongLen
    /\ ret.raised = "none"
    /\ ret # flanger_effect(args.audioin, args.depth, <<1, 1>>, args.shape)
    /\ ret = flanger_effect(args.audioin, args.depth, <<0, 1>>, args.shape)

C13_FailFast ==
    (/\ pc = "returned"
     /\ fname \in {"flanger_effect", "chorus_effect"}
     /\ (args.shape \notin shapes \/ (fname = "chorus_effect" /\ args.mode \notin modes))) =>
        /\ ret.raised = "ValueError"
        /\ fname = "chorus_effect" => np_random = args.np_random

\* C14: delay_effect and the oscillator reject a sample rate <= 0 and a
\* length <= 0 with the invalid-argument error, so that in a call that
\* returns the count floor(seconds * samplerate) is never negative.
C14_NonPositiveRejected ==
    (pc = "returned" /\ fname \in {"delay_effect", "_low_frequency_oscillator"}) =>
        LET length == IF fname = "delay_effect" THEN Len(args.audioin) ELSE args.length
            seconds == IF fname = "delay_effect" THEN args.delay ELSE args.amplitude
        IN /\ (args.samplerate <= 0 \/ length <= 0) => ret.raised = "ValueError"
           /\ ret.raised = "none" => FloorSamples(seconds, args.samplerate) >= 0

\* C15: a call of chorus_effect leaves the shared generator in the state it
\* found it in, and the sweeps of a gaussian call are the same whatever that
\* state was.
C15_NoSharedGenerator ==
    Returned("chorus_effect") =>
        /\ np_random = args.np_random
        /\ args.mode = "gaussian" =>
             \A s \in GeneratorStates :
                 args.drawn = np_random_normal(s, args.sweepargs.sweepmean,
                                               args.sweepargs.sweepsd, args.voices)

\* C16: every call of phaser_effect raises the not-implemented error.
C16_PhaserNotImplemented ==
    Returned("phaser_effect") => ret.raised = "NotImplementedError"

====
